---- MODULE Spec2Model ----
(***************************************************************************)
(* samfirm.js: the authenticated acquisition path (main in src/index.ts).  *)
(* main is an async function; it is modelled by one action per request it *)
(* sends and one per response it awaits.  After the download response the  *)
(* function has returned and the run is driven by stream events ('data',   *)
(* 'entry', per-entry 'finish').                                           *)
(***************************************************************************)
EXTENDS Integers, Sequences, FiniteSets, TLC

\* ---------------------------------------------------------------- bounds
\* nonce header values the service can answer with (1..MaxNonce)
MaxNonce == 2
\* largest BINARY_BYTE_SIZE the service announces
MaxByteSize == 4
\* largest number of entries in the archive
MaxEntries == 2
\* largest 'data' chunk of the response stream
MaxChunk == 2
\* number of candidate URLs constructFirmwareUrls returns
NumUrls == 6
MaxUploadChunks == 3

\* ---------------------------------------------------------------- values
\* a header that the response does not carry (responseHeaders.x == null)
Absent == 0
\* the empty string of nonce.encrypted / nonce.decrypted at index.ts:58-61
Empty == 0
\* bytes of the archive after the last entry (central directory, padding)
TrailerLen == 1
\* const batchSize = 5
BatchSize == 5
\* result.size > 1000000
SizeThreshold == 1000000
\* a property that was never set (result.size of an inaccessible URL)
Undefined == -1
\* if (now - lastProgressTime > 2000)
ThrottleMs == 2000
\* return 'store1'
DefaultServer == "store1"

NonceHeaders == 0..MaxNonce

\* a Set-Cookie value: name, value and the attributes after the first ';'
Cookie(n, v) == [name |-> n, value |-> v, attrs |-> "Path=/"]

\* the set-cookie header: absent, or an array of cookies
NoSetCookie == << >>
SetCookieHeaders ==
    { NoSetCookie,
      << Cookie("WMONID", 1) >>,
      << Cookie("WMONID", 1), Cookie("JSESSIONID", 1) >>,
      << Cookie("JSESSIONID", 2), Cookie("JSESSIONID", 1) >> }

ResponseHeaders == [nonce : NonceHeaders, setCookie : SetCookieHeaders]

\* version.xml 'latest' after split("/"): three components, an empty third
\* component, or only two components
LatestFields ==
    { << "PDA", "CSC", "MODEM" >>, << "PDA", "CSC", "" >>, << "PDA", "CSC" >> }

Phases == << "NonceIssuance", "BinaryInform", "BinaryInit", "Download" >>

VARIABLES
    pc,             \* position of main
    version,        \* { pda, csc, modem } of getLatestVersion
    nonce,          \* nonce = { encrypted, decrypted }
    headers,        \* headers = { Authorization, Cookie } (User-Agent fixed)
    inflight,       \* requests sent and not yet answered
    sent,           \* phases whose request has been sent, in order
    lastReq,        \* the request sent last
    handled,        \* number of responses processed by handleHeaders
    lastResp,       \* headers of the response processed last
    lastNonceSeen,  \* last nonce header observed in any response
    metadata,       \* BinaryInform result: "none", "present", "absent"
    binaryByteSize, \* BINARY_BYTE_SIZE of the BinaryInform response
    layout,         \* bytes each archive entry takes in the stream, in order
    streamStatus,   \* res.data: "none", "flowing", "ended", "cut"
    downloadedSize, \* let downloadedSize (index.ts:191)
    parsedSize,     \* bytes that went through binaryDecipher and unzip.Parse
    entryState,     \* per entry: "pending", "open" (being written), "finished"
    errorSeen,      \* binaryDecipher or unzip.Parse has emitted 'error'
    proc,           \* the process: "running", "exit0", "exit1", "crashed"
    bypass,         \* argv.bypassDownload
    performed,      \* steps of the bypass path that have been started
    caught,         \* the error caught by mainBypassDownload, or NoError
    probeIdx,       \* i of the batch loop of findAccessibleFirmwareUrl
    probeState,     \* per candidate URL: "idle", "inflight" or its result
    urlInfo,        \* urlInfo of directDownloadWorkflow (0: none yet / null)
    server,         \* server of uploadToGofile ("" before getBestServer)
    lookup,         \* answer of the getServer request, "none" before it
    clock,          \* Date.now() in ms since uploadFirmwareToGofile began
    uploadedChunks, \* chunks the form data has emitted
    lastProgressTime, \* let lastProgressTime (gofileUpload.ts:147)
    lastSpeedReport,  \* clock of the last upload-speed report, -1 if none
    lastReport,     \* clock of the last progress output of any kind, or -1
    uploadCause,    \* the error uploadToGofile's try block threw, or NoError
    originalModel,  \* argument of transformModel
    modelInfo,      \* result of transformModel, NoModelInfo before the call
    manifestFailure, \* why getLatestVersion rejected and with what error
    named,          \* requests that name the device, with the identifier used
    retained        \* identifiers used for reporting and for the output folder

sessionVars == << pc, version, nonce, headers, inflight, sent, lastReq,
                  handled, lastResp, lastNonceSeen, metadata, binaryByteSize >>

pipelineVars == << layout, streamStatus, downloadedSize, parsedSize,
                   entryState, errorSeen, proc >>

entryVars == << bypass, performed, caught >>

probeVars == << probeIdx, probeState, urlInfo >>

uploadVars == << server, lookup, clock, uploadedChunks, lastProgressTime,
                 lastSpeedReport, lastReport, uploadCause >>

transformVars == << originalModel, modelInfo >>

manifestVars == << manifestFailure >>

flowVars == << named, retained >>

extVars == << entryVars, probeVars, uploadVars, transformVars, manifestVars,
             flowVars >>

vars == << sessionVars, pipelineVars, extVars >>

\* ------------------------------------------------- opaque collaborators
\* decryptNonce: an injective function of the nonce header
DecryptNonce(n) == 10 + n
\* the Authorization header signed from a nonce header
SignedAuthorization(n) == 100 + n

handleAuthRotation(rh) ==
    [ Authorization |-> SignedAuthorization(rh.nonce),
      nonce |-> [ encrypted |-> rh.nonce, decrypted |-> DecryptNonce(rh.nonce) ] ]

\* responseHeaders["set-cookie"]?.find(startsWith("JSESSIONID"))?.split(";")[0]
RECURSIVE FindSessionID(_)
FindSessionID(cookies) ==
    IF cookies = << >> THEN Absent
    ELSE IF Head(cookies).name = "JSESSIONID" THEN Head(cookies).value
    ELSE FindSessionID(Tail(cookies))

\* headers after handleHeaders, with the nonce lost: Authorization not updated
handleHeaders_StaleAuthorization(rh) ==
    /\ nonce' = IF rh.nonce # Absent THEN handleAuthRotation(rh).nonce ELSE nonce
    /\ headers' = [ headers EXCEPT
           !.Cookie = IF FindSessionID(rh.setCookie) # Absent
                      THEN FindSessionID(rh.setCookie) ELSE @ ]

\* handleHeaders that overwrites the state from every response
handleHeaders_Unconditional(rh) ==
    /\ nonce' = IF rh.nonce # Absent THEN handleAuthRotation(rh).nonce
                ELSE [ encrypted |-> Empty, decrypted |-> Empty ]
    /\ headers' = [ Authorization |-> IF rh.nonce # Absent
                                      THEN handleAuthRotation(rh).Authorization
                                      ELSE Absent,
                    Cookie |-> FindSessionID(rh.setCookie) ]

handleHeaders(rh) ==
    /\ nonce' = IF rh.nonce # Absent THEN handleAuthRotation(rh).nonce ELSE nonce
    /\ headers' = [ headers EXCEPT
           !.Authorization = IF rh.nonce # Absent
                             THEN handleAuthRotation(rh).Authorization ELSE @,
           !.Cookie = IF FindSessionID(rh.setCookie) # Absent
                      THEN FindSessionID(rh.setCookie) ELSE @ ]

\* bookkeeping of a response that went through handleHeaders
Processed(rh) ==
    /\ handled' = handled + 1
    /\ lastResp' = rh
    /\ lastNonceSeen' = IF rh.nonce # Absent THEN rh.nonce ELSE lastNonceSeen

\* a request of the session as it leaves the client
Request(phase, auth, cookie, bodyNonce, ver) ==
    [ phase |-> phase, Authorization |-> auth, Cookie |-> cookie,
      nonce |-> bodyNonce, version |-> ver ]

NoRequest == Request("none", Absent, Absent, Empty, << >>)

Send(req) ==
    /\ inflight' = inflight \cup { req.phase }
    /\ sent' = Append(sent, req.phase)
    /\ lastReq' = req

\* ------------------------------------------------------------------ Init
\* no error has been thrown
NoError == [ kind |-> "none", message |-> << >>, response |-> Absent ]

\* a JavaScript value: a string, undefined, or an object (functions included)
Str(s) == [ type |-> "string", val |-> s ]

JsUndefined == [ type |-> "undefined", val |-> "" ]

NoModelInfo ==
    [ original |-> "", transformed |-> JsUndefined, wasTransformed |-> FALSE ]

\* the variables outside main before anything has run
ProbeIdle ==
    [ k \in 1..NumUrls |->
        [ phase |-> "idle", status |-> 0, accessible |-> FALSE,
          size |-> Undefined ] ]

\* urlInfo before findAccessibleFirmwareUrl has returned, and its null
NoUrl == [ url |-> 0, size |-> 0 ]

InitBypassPath ==
    /\ performed = { }
    /\ caught = NoError
    /\ probeIdx = 0
    /\ probeState = ProbeIdle
    /\ urlInfo = NoUrl
    /\ server = ""
    /\ lookup = "none"
    /\ clock = 0
    /\ uploadedChunks = 0
    /\ lastProgressTime = 0
    /\ lastSpeedReport = -1
    /\ lastReport = -1
    /\ uploadCause = NoError

InitTransform ==
    /\ originalModel = ""
    /\ modelInfo = NoModelInfo

\* getLatestVersion has not rejected
NoManifestFailure == [ cause |-> "none", error |-> NoError ]

InitMain ==
    /\ manifestFailure = NoManifestFailure
    /\ named = { }
    /\ retained = { }
    /\ version = << >>
    /\ nonce = [ encrypted |-> Empty, decrypted |-> Empty ]
    /\ headers = [ Authorization |-> Absent, Cookie |-> Absent ]
    /\ inflight = { }
    /\ sent = << >>
    /\ lastReq = NoRequest
    /\ handled = 0
    /\ lastResp = [ nonce |-> Absent, setCookie |-> NoSetCookie ]
    /\ lastNonceSeen = Absent
    /\ metadata = "none"
    /\ binaryByteSize = 0
    /\ layout = << >>
    /\ streamStatus = "none"
    /\ downloadedSize = 0
    /\ parsedSize = 0
    /\ entryState = << >>
    /\ errorSeen = FALSE
    /\ proc = "running"

Init ==
    /\ bypass \in BOOLEAN
    /\ InitBypassPath
    /\ InitTransform
    /\ pc = IF bypass THEN "bp_start" ELSE "start"
    /\ InitMain

\* ------------------------------------------------------ getLatestVersion
GetLatestVersion ==
    /\ pc = "start"
    /\ pc' = "manifest"
    /\ UNCHANGED << version, nonce, headers, inflight, sent, lastReq, handled,
                    lastResp, lastNonceSeen, metadata, binaryByteSize,
                    pipelineVars, extVars >>

\* const [pda, csc, modem] = latest.split("/")
LatestVersionResponse ==
    /\ pc = "manifest"
    /\ \E latest \in LatestFields :
          version' = [ pda |-> latest[1], csc |-> latest[2],
                       modem |-> IF Len(latest) >= 3 THEN latest[3]
                                 ELSE "undefined" ]
    /\ pc' = "versioned"
    /\ UNCHANGED << nonce, headers, inflight, sent, lastReq, handled,
                    lastResp, lastNonceSeen, metadata, binaryByteSize,
                    pipelineVars, extVars >>

\* why getLatestVersion rejects: the request fails (no answer, or a status
\* outside 2xx), the document has no versioninfo.firmware.version, or
\* there is no latest field in it
ManifestFailures == { "unreachable", "invalid", "noLatest" }

\* the value the promise of getLatestVersion rejects with: the error of
\* axios, or the TypeError of reading a property of undefined
getLatestVersionError(cause) ==
    IF cause = "unreachable"
    THEN [ kind |-> "AxiosError", message |-> << "get" >>,
           response |-> Absent ]
    ELSE [ kind |-> "TypeError",
           message |-> << "Cannot read properties of undefined",
                          IF cause = "invalid" THEN "firmware" ELSE "split" >>,
           response |-> Absent ]

\* a getLatestVersion that answers a failure with an empty version
LatestVersionFails_EmptyVersion ==
    /\ pc = "manifest"
    /\ \E cause \in ManifestFailures :
          manifestFailure' = [ cause |-> cause,
                               error |-> getLatestVersionError(cause) ]
    /\ version' = [ pda |-> "", csc |-> "", modem |-> "" ]
    /\ pc' = "versioned"
    /\ UNCHANGED << nonce, headers, inflight, sent, lastReq, handled,
                    lastResp, lastNonceSeen, metadata, binaryByteSize,
                    pipelineVars, entryVars, probeVars, uploadVars,
                    transformVars, flowVars >>

\* getLatestVersion rejects and main with it
LatestVersionFails ==
    /\ pc = "manifest"
    /\ \E cause \in ManifestFailures :
          manifestFailure' = [ cause |-> cause,
                               error |-> getLatestVersionError(cause) ]
    /\ version' = version
    /\ pc' = "rejected"
    /\ UNCHANGED << nonce, headers, inflight, sent, lastReq, handled,
                    lastResp, lastNonceSeen, metadata, binaryByteSize,
                    pipelineVars, entryVars, probeVars, uploadVars,
                    transformVars, flowVars >>

\* ---------------------------------------------------------- NonceIssuance
SendNonceIssuance ==
    /\ pc = "versioned"
    /\ Send(Request("NonceIssuance", Absent, Absent, Empty, << >>))
    /\ pc' = "nonce"
    /\ UNCHANGED << version, nonce, headers, handled, lastResp, lastNonceSeen,
                    metadata, binaryByteSize,
                    pipelineVars, extVars >>

NonceIssuanceResponse ==
    /\ pc = "nonce"
    /\ \E rh \in ResponseHeaders :
          /\ handleHeaders(rh)
          /\ Processed(rh)
    /\ inflight' = inflight \ { "NonceIssuance" }
    /\ pc' = "nonce_done"
    /\ UNCHANGED << version, sent, lastReq, metadata, binaryByteSize,
                    pipelineVars, extVars >>

\* ----------------------------------------------------------- BinaryInform
InformVersion ==
    << version.pda, version.csc,
       IF version.modem # "" THEN version.modem ELSE version.pda,
       version.pda >>

\* BinaryInform sent without waiting for the NonceIssuance response
SendBinaryInform_NoAwait ==
    /\ pc \in { "nonce", "nonce_done" }
    /\ Send(Request("BinaryInform", headers.Authorization, headers.Cookie,
                    nonce.decrypted, InformVersion))
    /\ pc' = "inform"
    /\ UNCHANGED << version, nonce, headers, handled, lastResp, lastNonceSeen,
                    metadata, binaryByteSize,
                    pipelineVars, extVars >>

SendBinaryInform ==
    /\ pc = "nonce_done"
    /\ Send(Request("BinaryInform", headers.Authorization, headers.Cookie,
                    nonce.decrypted, InformVersion))
    /\ pc' = "inform"
    /\ UNCHANGED << version, nonce, headers, handled, lastResp, lastNonceSeen,
                    metadata, binaryByteSize,
                    pipelineVars, extVars >>

\* a BinaryInform response whose missing fields are read as undefined
BinaryInformResponse_NoThrow ==
    /\ pc = "inform"
    /\ \E rh \in ResponseHeaders :
          /\ handleHeaders(rh)
          /\ Processed(rh)
    /\ inflight' = inflight \ { "BinaryInform" }
    /\ \E m \in { "present", "absent" } :
          /\ metadata' = m
          /\ binaryByteSize' \in IF m = "present"
                                 THEN (1 + TrailerLen)..MaxByteSize ELSE { 0 }
    /\ pc' = "inform_done"
    /\ UNCHANGED << version, sent, lastReq, pipelineVars, extVars >>

\* handleHeaders, then xmlParse and the reads of FUSMsg.FUSBody.Put.*.Data:
\* a missing element makes the property read throw, and main rejects
BinaryInformResponse ==
    /\ pc = "inform"
    /\ \E rh \in ResponseHeaders :
          /\ handleHeaders(rh)
          /\ Processed(rh)
    /\ inflight' = inflight \ { "BinaryInform" }
    /\ \/ /\ metadata' = "present"
          /\ binaryByteSize' \in (1 + TrailerLen)..MaxByteSize
          /\ pc' = "inform_done"
       \/ /\ metadata' = "absent"
          /\ binaryByteSize' = binaryByteSize
          /\ pc' = "rejected"
    /\ UNCHANGED << version, sent, lastReq, pipelineVars, extVars >>

\* ------------------------------------------------------------- BinaryInit
SendBinaryInit ==
    /\ pc = "inform_done"
    /\ Send(Request("BinaryInit", headers.Authorization, headers.Cookie,
                    nonce.decrypted, << >>))
    /\ pc' = "init"
    /\ UNCHANGED << version, nonce, headers, handled, lastResp, lastNonceSeen,
                    metadata, binaryByteSize,
                    pipelineVars, extVars >>

BinaryInitResponse ==
    /\ pc = "init"
    /\ \E rh \in ResponseHeaders :
          /\ handleHeaders(rh)
          /\ Processed(rh)
    /\ inflight' = inflight \ { "BinaryInit" }
    /\ pc' = "init_done"
    /\ UNCHANGED << version, sent, lastReq, metadata, binaryByteSize,
                    pipelineVars, extVars >>

\* --------------------------------------------------------------- download
SendDownload ==
    /\ pc = "init_done"
    /\ Send(Request("Download", headers.Authorization, headers.Cookie,
                    Empty, << >>))
    /\ pc' = "download"
    /\ UNCHANGED << version, nonce, headers, handled, lastResp, lastNonceSeen,
                    metadata, binaryByteSize,
                    pipelineVars, extVars >>

\* the response of the download GET: the stream starts flowing and main
\* returns.  The service serves the archive its metadata announced.
RECURSIVE Sum(_)
Sum(s) == IF s = << >> THEN 0 ELSE Head(s) + Sum(Tail(s))

Layouts(total) ==
    { l \in UNION { [1..k -> 1..MaxByteSize] : k \in 1..MaxEntries } :
          Sum(l) + TrailerLen = total }

DownloadResponse ==
    /\ pc = "download"
    /\ inflight' = inflight \ { "Download" }
    /\ layout' \in Layouts(binaryByteSize)
    /\ entryState' = [ i \in 1..Len(layout') |-> "pending" ]
    /\ streamStatus' = "flowing"
    /\ downloadedSize' = 0
    /\ pc' = "pipeline"
    /\ UNCHANGED << version, nonce, headers, sent, lastReq, handled, lastResp,
                    lastNonceSeen, metadata, binaryByteSize, parsedSize,
                    errorSeen, proc, extVars >>

\* --------------------------------------------- StreamingUnwrapPipeline
Piping == pc = "pipeline" /\ proc = "running"

\* first byte of entry i in the stream, and the byte after its last one
EntryStart(i) == Sum(SubSeq(layout, 1, i - 1))
EntryEnd(i) == Sum(SubSeq(layout, 1, i))

\* res.data 'data': downloadedSize += buffer.length
OnData(n) ==
    /\ Piping
    /\ streamStatus = "flowing"
    /\ downloadedSize + n <= binaryByteSize
    /\ downloadedSize' = downloadedSize + n
    /\ UNCHANGED << extVars, sessionVars, layout, streamStatus, parsedSize, entryState,
                    errorSeen, proc >>

\* the stream ends after all announced bytes; no handler is registered
OnStreamEnd ==
    /\ Piping
    /\ streamStatus = "flowing"
    /\ downloadedSize = binaryByteSize
    /\ streamStatus' = "ended"
    /\ UNCHANGED << extVars, sessionVars, layout, downloadedSize, parsedSize,
                    entryState, errorSeen, proc >>

\* the stream stops short of the announced size.  No 'end', 'close' or
\* 'error' handler is registered on it: either the runtime raises the
\* stream's 'error' as an uncaught exception, or nothing runs at all.
OnStreamTruncated ==
    /\ Piping
    /\ streamStatus = "flowing"
    /\ downloadedSize < binaryByteSize
    /\ streamStatus' = "cut"
    /\ proc' \in { "running", "crashed" }
    /\ UNCHANGED << extVars, sessionVars, layout, downloadedSize, parsedSize,
                    entryState, errorSeen >>

\* unzip.Parse 'entry' for entry i: its header is parsed, the handler
\* opens the write stream and pipes the entry into it
OnEntry(i) ==
    /\ Piping
    /\ entryState[i] = "pending"
    /\ parsedSize = EntryStart(i)
    /\ parsedSize < downloadedSize
    /\ parsedSize' = parsedSize + 1
    /\ entryState' = [ entryState EXCEPT ![i] = "open" ]
    /\ UNCHANGED << extVars, sessionVars, layout, streamStatus, downloadedSize,
                    errorSeen, proc >>

\* a byte of an entry's body, or of the trailer, goes through the pipes
ParseBody ==
    /\ Piping
    /\ parsedSize < downloadedSize
    /\ \A i \in 1..Len(layout) : parsedSize # EntryStart(i)
    /\ parsedSize' = parsedSize + 1
    /\ UNCHANGED << extVars, sessionVars, layout, streamStatus, downloadedSize,
                    entryState, errorSeen, proc >>

\* a 'finish' handler that exits without comparing the sizes
OnFinish_NoSizeCheck(i) ==
    /\ Piping
    /\ entryState[i] = "open"
    /\ parsedSize >= EntryEnd(i)
    /\ entryState' = [ entryState EXCEPT ![i] = "finished" ]
    /\ proc' = "exit0"
    /\ UNCHANGED << extVars, sessionVars, layout, streamStatus, downloadedSize,
                    parsedSize, errorSeen >>

\* the write stream of entry i emits 'finish':
\* if (downloadedSize === binaryByteSize) process.exit()
OnFinish(i) ==
    /\ Piping
    /\ entryState[i] = "open"
    /\ parsedSize >= EntryEnd(i)
    /\ entryState' = [ entryState EXCEPT ![i] = "finished" ]
    /\ proc' = IF downloadedSize = binaryByteSize THEN "exit0" ELSE proc
    /\ UNCHANGED << extVars, sessionVars, layout, streamStatus, downloadedSize,
                    parsedSize, errorSeen >>

\* an 'error' listener that swallows the error and lets the run go on
OnPipelineError_Swallowed ==
    /\ Piping
    /\ parsedSize < downloadedSize
    /\ errorSeen' = TRUE
    /\ UNCHANGED << extVars, sessionVars, layout, streamStatus, downloadedSize,
                    parsedSize, entryState, proc >>

\* binaryDecipher or unzip.Parse emits 'error' while processing a byte; no
\* 'error' listener is registered, so the emit throws and the process dies
OnPipelineError ==
    /\ Piping
    /\ parsedSize < downloadedSize
    /\ errorSeen' = TRUE
    /\ proc' = "crashed"
    /\ UNCHANGED << extVars, sessionVars, layout, streamStatus, downloadedSize,
                    parsedSize, entryState >>

\* a rejected session request that falls back to the bypass path
RequestFails_Fallback ==
    /\ pc \in { "nonce", "inform", "init", "download" }
    /\ inflight' = { }
    /\ pc' = "bp_start"
    /\ UNCHANGED << version, nonce, headers, sent, lastReq, handled, lastResp,
                    lastNonceSeen, metadata, binaryByteSize,
                    pipelineVars, extVars >>

\* axios rejects (network error, status outside 2xx): main rejects
RequestFails ==
    /\ pc \in { "nonce", "inform", "init", "download" }
    /\ inflight' = { }
    /\ pc' = "rejected"
    /\ UNCHANGED << version, nonce, headers, sent, lastReq, handled, lastResp,
                    lastNonceSeen, metadata, binaryByteSize,
                    pipelineVars, extVars >>

\* ===================================================== mainBypassDownload
\* an Error as the catch block of mainBypassDownload sees it
Error(kind, message, response) ==
    [ kind |-> kind, message |-> message, response |-> response ]

\* catch (error) { console.error(...); process.exit(1) }
Catch(error) ==
    /\ caught' = error
    /\ proc' = "exit1"
    /\ pc' = "bp_exit"

pipelineRest == << layout, streamStatus, downloadedSize, parsedSize,
                   entryState, errorSeen >>

sessionRest == << nonce, headers, inflight, sent, lastReq, handled, lastResp,
                  lastNonceSeen, metadata, binaryByteSize >>

BpGetLatestVersion ==
    /\ pc = "bp_start"
    /\ proc = "running"
    /\ pc' = "bp_manifest"
    /\ UNCHANGED << version, sessionRest, pipelineVars, extVars >>

\* the version is resolved, the output directory is made and
\* directDownloadWorkflow calls findAccessibleFirmwareUrl
BpLatestVersionResponse ==
    /\ pc = "bp_manifest"
    /\ \E latest \in LatestFields :
          version' = [ pda |-> latest[1], csc |-> latest[2],
                       modem |-> IF Len(latest) >= 3 THEN latest[3]
                                 ELSE "undefined" ]
    /\ pc' = "bp_probe_loop"
    /\ UNCHANGED << sessionRest, pipelineVars, extVars >>

BpLatestVersionFails ==
    /\ pc = "bp_manifest"
    /\ \E cause \in ManifestFailures :
          /\ manifestFailure' = [ cause |-> cause,
                                  error |-> getLatestVersionError(cause) ]
          /\ Catch(getLatestVersionError(cause))
    /\ UNCHANGED << version, sessionRest, pipelineRest, bypass, performed,
                    probeVars, uploadVars, transformVars, flowVars >>

\* ------------------------------------------- findAccessibleFirmwareUrl
\* the version fields the candidate filenames are built from:
\* `${model}_${pda}_${csc}_${modem}_HOME.tar.md5` and the like
FilenameFields == << version.pda, version.csc, version.modem >>

Min(a, b) == IF a <= b THEN a ELSE b

\* urls.slice(i, i + batchSize), as 1-based positions in urls
Batch(i) == (i + 1)..Min(i + BatchSize, NumUrls)

\* what a HEAD request can come to: axios throws (status 0: no response,
\* timeout or a status outside 2xx), or answers 2xx with or without a
\* content-length header
ProbeResponses ==
    { [ status |-> 0, contentLength |-> << >> ],
      [ status |-> 204, contentLength |-> << >> ],
      [ status |-> 200, contentLength |-> << >> ],
      [ status |-> 200, contentLength |-> << SizeThreshold >> ],
      [ status |-> 200, contentLength |-> << SizeThreshold + 1 >> ] }

\* parseInt(response.headers['content-length'] || '0')
ParseContentLength(h) == IF h = << >> THEN 0 ELSE h[1]

testFirmwareUrl(resp) ==
    IF resp.status = 0
    THEN [ accessible |-> FALSE, size |-> Undefined ]
    ELSE IF resp.status = 200
         THEN [ accessible |-> TRUE,
                size |-> ParseContentLength(resp.contentLength) ]
         ELSE [ accessible |-> FALSE, size |-> Undefined ]

Probed(resp) ==
    [ phase |-> "done", status |-> resp.status,
      accessible |-> testFirmwareUrl(resp).accessible,
      size |-> testFirmwareUrl(resp).size ]

\* a selection rule that takes any accessible URL, whatever its size
Accepts_AnySize(result) == result.accessible

\* result.accessible && result.size && result.size > 1000000
Accepts(result) ==
    /\ result.accessible
    /\ result.size # Undefined /\ result.size # 0
    /\ result.size > SizeThreshold

\* a scan that keeps the last accepted result of the batch
FirstAccepted_Last(batch) ==
    IF \E k \in batch : Accepts(probeState[k])
    THEN CHOOSE k \in batch :
            /\ Accepts(probeState[k])
            /\ \A j \in batch : Accepts(probeState[j]) => j <= k
    ELSE 0

\* for (const result of results) if (...) return: position of the first
\* accepted result of the batch, 0 if there is none
FirstAccepted(batch) ==
    IF \E k \in batch : Accepts(probeState[k])
    THEN CHOOSE k \in batch :
            /\ Accepts(probeState[k])
            /\ \A j \in batch : Accepts(probeState[j]) => k <= j
    ELSE 0

InFlight == { k \in 1..NumUrls : probeState[k].phase = "inflight" }

\* a loop that also sends the HEAD requests of the batch after this one
StartBatch_Prefetch ==
    /\ pc = "bp_probe_loop"
    /\ probeIdx < NumUrls
    /\ probeState' = [ k \in 1..NumUrls |->
                         IF k \in Batch(probeIdx) \cup Batch(probeIdx + BatchSize)
                         THEN [ probeState[k] EXCEPT !.phase = "inflight" ]
                         ELSE probeState[k] ]
    /\ performed' = performed \cup { "probe" }
    /\ pc' = "bp_probe_wait"
    /\ UNCHANGED << version, sessionRest, pipelineVars, bypass, caught,
                    probeIdx, urlInfo, uploadVars, transformVars, manifestVars,
                    flowVars >>

\* batch.map(async url => testFirmwareUrl(url)): every HEAD request of
\* the batch is sent
StartBatch ==
    /\ pc = "bp_probe_loop"
    /\ probeIdx < NumUrls
    /\ probeState' = [ k \in 1..NumUrls |->
                         IF k \in Batch(probeIdx)
                         THEN [ probeState[k] EXCEPT !.phase = "inflight" ]
                         ELSE probeState[k] ]
    /\ performed' = performed \cup { "probe" }
    /\ pc' = "bp_probe_wait"
    /\ UNCHANGED << version, sessionRest, pipelineVars, bypass, caught,
                    probeIdx, urlInfo, uploadVars, transformVars, manifestVars,
                    flowVars >>

\* a testFirmwareUrl without try/catch: the thrown error rejects
\* Promise.all and the whole workflow
ProbeCompletes_NoCatch(k, resp) ==
    /\ pc = "bp_probe_wait"
    /\ probeState[k].phase = "inflight"
    /\ probeState' = [ probeState EXCEPT ![k] = Probed(resp) ]
    /\ IF resp.status = 0
       THEN Catch(Error("AxiosError", << "head" >>, Absent))
       ELSE UNCHANGED << caught, proc, pc >>
    /\ UNCHANGED << version, sessionRest, pipelineRest, bypass, performed,
                    probeIdx, urlInfo, uploadVars, transformVars, manifestVars,
                    flowVars >>

\* the HEAD request of candidate k settles and testFirmwareUrl returns
ProbeCompletes(k, resp) ==
    /\ pc = "bp_probe_wait"
    /\ probeState[k].phase = "inflight"
    /\ probeState' = [ probeState EXCEPT ![k] = Probed(resp) ]
    /\ UNCHANGED << pc, version, sessionRest, pipelineVars, entryVars,
                    probeIdx, urlInfo, uploadVars, transformVars, manifestVars,
                    flowVars >>

\* the function returns r: its locals are gone
ProbeReturn(r) ==
    /\ urlInfo' = r
    /\ probeState' = ProbeIdle
    /\ probeIdx' = 0
    /\ pc' = "bp_probe_returned"

\* the results are scanned as soon as one probe of the batch has settled
EvaluateBatch_AnySettled ==
    /\ pc = "bp_probe_wait"
    /\ \E k \in Batch(probeIdx) : probeState[k].phase = "done"
    /\ IF FirstAccepted(Batch(probeIdx)) # 0
       THEN ProbeReturn([ url |-> FirstAccepted(Batch(probeIdx)),
                          size |-> probeState[FirstAccepted(Batch(probeIdx))].size ])
       ELSE /\ pc' = "bp_probe_delay"
            /\ UNCHANGED probeVars
    /\ UNCHANGED << version, sessionRest, pipelineVars, entryVars,
                    uploadVars, transformVars, manifestVars,
                    flowVars >>

\* await Promise.all(promises) resumes: the results are scanned in order
EvaluateBatch ==
    /\ pc = "bp_probe_wait"
    /\ \A k \in Batch(probeIdx) : probeState[k].phase = "done"
    /\ IF FirstAccepted(Batch(probeIdx)) # 0
       THEN ProbeReturn([ url |-> FirstAccepted(Batch(probeIdx)),
                          size |-> probeState[FirstAccepted(Batch(probeIdx))].size ])
       ELSE /\ pc' = "bp_probe_delay"
            /\ UNCHANGED probeVars
    /\ UNCHANGED << version, sessionRest, pipelineVars, entryVars,
                    uploadVars, transformVars, manifestVars,
                    flowVars >>

\* the 1000 ms timer fires: i += batchSize, then the next batch or return null
BatchDelay ==
    /\ pc = "bp_probe_delay"
    /\ IF probeIdx + BatchSize < NumUrls
       THEN /\ probeIdx' = probeIdx + BatchSize
            /\ pc' = "bp_probe_loop"
            /\ UNCHANGED << probeState, urlInfo >>
       ELSE ProbeReturn(NoUrl)
    /\ UNCHANGED << version, sessionRest, pipelineVars, entryVars,
                    uploadVars, transformVars, manifestVars,
                    flowVars >>

\* ------------------------------------------------ directDownloadWorkflow
\* a workflow that goes on to download whatever the probe returned
directDownloadWorkflow_NoNullCheck ==
    /\ pc = "bp_probe_returned"
    /\ performed' = performed \cup { "download" }
    /\ pc' = "bp_download_wait"
    /\ UNCHANGED << caught, proc >>
    /\ UNCHANGED << version, sessionRest, pipelineRest, bypass, probeVars,
                    uploadVars, transformVars, manifestVars,
                    flowVars >>

\* if (!urlInfo) throw new Error('No accessible firmware URLs found...');
\* otherwise downloadFirmwareDirect sends its GET request
directDownloadWorkflow ==
    /\ pc = "bp_probe_returned"
    /\ IF urlInfo = NoUrl
       THEN /\ Catch(Error("NoMirrorFound",
                           << "No accessible firmware URLs found" >>, Absent))
            /\ UNCHANGED performed
       ELSE /\ performed' = performed \cup { "download" }
            /\ pc' = "bp_download_wait"
            /\ UNCHANGED << caught, proc >>
    /\ UNCHANGED << version, sessionRest, pipelineRest, bypass, probeVars,
                    uploadVars, transformVars, manifestVars,
                    flowVars >>

\* HTTP statuses of a rejected request; Absent when no response came
FailureResponses == { Absent, 404, 500 }

\* axios rejects the GET: downloadFirmwareDirect logs and rethrows
BpDownloadFails ==
    /\ pc = "bp_download_wait"
    /\ \E r \in FailureResponses :
          Catch(Error("AxiosError", << "get" >>, r))
    /\ UNCHANGED << version, sessionRest, pipelineRest, bypass, performed,
                    probeVars, uploadVars, transformVars, manifestVars,
                    flowVars >>

\* a download that hands the file to the upload as soon as the response
\* headers are in
BpDownloadResponse_EarlyUpload ==
    /\ pc = "bp_download_wait"
    /\ lastProgressTime' = clock
    /\ performed' = performed \cup { "bestServer" }
    /\ pc' = "bp_server_wait"
    /\ UNCHANGED << version, sessionRest, pipelineVars, bypass, caught,
                    probeVars, server, lookup, clock, uploadedChunks,
                    lastSpeedReport, lastReport, uploadCause, transformVars,
                    manifestVars, flowVars >>

\* the response headers arrive: the writer is created and the body is piped
BpDownloadResponse ==
    /\ pc = "bp_download_wait"
    /\ pc' = "bp_piping"
    /\ UNCHANGED << version, sessionRest, pipelineVars, extVars >>

\* writer 'error': the promise rejects
BpWriterError ==
    /\ pc = "bp_piping"
    /\ Catch(Error("Error", << "write" >>, Absent))
    /\ UNCHANGED << version, sessionRest, pipelineRest, bypass, performed,
                    probeVars, uploadVars, transformVars, manifestVars,
                    flowVars >>

\* the response stream breaks: nothing listens for its 'error', the writer
\* never finishes; the process is brought down or is left waiting
BpSourceBreaks ==
    /\ pc = "bp_piping"
    /\ \E outcome \in { "crashed", "running" } : proc' = outcome
    /\ pc' = "bp_stalled"
    /\ UNCHANGED << version, sessionRest, pipelineRest, extVars >>

\* ------------------------------------------------------ uploadToGofile
\* writer 'finish': the download resolves; uploadFirmwareToGofile takes
\* lastProgressTime = Date.now() and uploadToGofile asks for the best server
BpWriterFinish ==
    /\ pc = "bp_piping"
    /\ lastProgressTime' = clock
    /\ performed' = performed \cup { "bestServer" }
    /\ pc' = "bp_server_wait"
    /\ UNCHANGED << version, sessionRest, pipelineVars, bypass, caught,
                    probeVars, server, lookup, clock, uploadedChunks,
                    lastSpeedReport, lastReport, uploadCause, transformVars, manifestVars,
                    flowVars >>

\* what the getServer request can come to
ServerResponses ==
    { [ failed |-> TRUE, status |-> "", server |-> "" ],
      [ failed |-> FALSE, status |-> "error", server |-> "" ],
      [ failed |-> FALSE, status |-> "ok", server |-> "store2" ] }

\* a lookup without catch and without default
getBestServer_NoFallback(resp) == resp.server

getBestServer(resp) ==
    IF resp.failed
    THEN DefaultServer
    ELSE IF resp.status = "ok" THEN resp.server ELSE DefaultServer

\* getBestServer returns and the multipart POST is issued against the server
GetServerSettles ==
    /\ pc = "bp_server_wait"
    /\ \E resp \in ServerResponses :
          /\ server' = getBestServer(resp)
          /\ lookup' = IF resp.failed THEN "failed"
                       ELSE IF resp.status = "ok" THEN "ok" ELSE "notok"
    /\ performed' = performed \cup { "upload" }
    /\ pc' = "bp_uploading"
    /\ UNCHANGED << version, sessionRest, pipelineVars, bypass, caught,
                    probeVars, clock, uploadedChunks, lastProgressTime,
                    lastSpeedReport, lastReport, uploadCause, transformVars, manifestVars,
                    flowVars >>

\* how far Date.now() moves between two chunks
ClockSteps == { 0, ThrottleMs, ThrottleMs + 1 }

\* a progress callback that never moves lastProgressTime
OnUploadChunk_NoReset ==
    /\ pc = "bp_uploading"
    /\ uploadedChunks < MaxUploadChunks
    /\ \E d \in ClockSteps : clock' = clock + d
    /\ uploadedChunks' = uploadedChunks + 1
    /\ IF clock' - lastProgressTime > ThrottleMs
       THEN /\ lastSpeedReport' = clock'
            /\ UNCHANGED lastProgressTime
       ELSE UNCHANGED << lastProgressTime, lastSpeedReport >>
    /\ lastReport' = clock'
    /\ UNCHANGED << pc, version, sessionRest, pipelineVars, entryVars,
                    probeVars, server, lookup, uploadCause, transformVars, manifestVars,
                    flowVars >>

\* formData 'data': uploadedBytes grows, onProgress logs the speed when more
\* than 2000 ms have passed, and the uploaded-bytes line is written
OnUploadChunk ==
    /\ pc = "bp_uploading"
    /\ uploadedChunks < MaxUploadChunks
    /\ \E d \in ClockSteps : clock' = clock + d
    /\ uploadedChunks' = uploadedChunks + 1
    /\ IF clock' - lastProgressTime > ThrottleMs
       THEN /\ lastSpeedReport' = clock'
            /\ lastProgressTime' = clock'
       ELSE UNCHANGED << lastProgressTime, lastSpeedReport >>
    /\ lastReport' = clock'
    /\ UNCHANGED << pc, version, sessionRest, pipelineVars, entryVars,
                    probeVars, server, lookup, uploadCause, transformVars, manifestVars,
                    flowVars >>

\* the error uploadToGofile's catch block throws for a cause
UploadError(cause) ==
    Error("Error", << "Gofile.io upload failed" >> \o cause.message, Absent)

\* the POST is answered 2xx with status 'ok': the result is returned
UploadAccepted ==
    /\ pc = "bp_uploading"
    /\ uploadedChunks >= 1
    /\ pc' = "bp_uploaded"
    /\ UNCHANGED << version, sessionRest, pipelineVars, extVars >>

\* the POST is answered 2xx with another status: the else branch throws,
\* the catch block of the same function wraps the error
UploadNotOk ==
    /\ pc = "bp_uploading"
    /\ \E m \in { "quota", "Unknown error" } :
          /\ uploadCause' = Error("Error", << "Upload failed", m >>, Absent)
          /\ Catch(UploadError(uploadCause'))
    /\ UNCHANGED << version, sessionRest, pipelineRest, bypass, performed,
                    probeVars, server, lookup, clock, uploadedChunks,
                    lastProgressTime, lastSpeedReport, lastReport,
                    transformVars, manifestVars,
                    flowVars >>

\* axios rejects the POST (no response, timeout, or a status outside 2xx)
UploadFails ==
    /\ pc = "bp_uploading"
    /\ \E r \in FailureResponses :
          /\ uploadCause' = Error("AxiosError", << "post" >>, r)
          /\ Catch(UploadError(uploadCause'))
    /\ UNCHANGED << version, sessionRest, pipelineRest, bypass, performed,
                    probeVars, server, lookup, clock, uploadedChunks,
                    lastProgressTime, lastSpeedReport, lastReport,
                    transformVars, manifestVars,
                    flowVars >>

\* createUploadSummary and fs.writeFileSync(summaryPath, summary); the
\* function returns and the process ends with nothing left to do
WriteSummary ==
    /\ pc = "bp_uploaded"
    /\ performed' = performed \cup { "summary" }
    /\ pc' = "bp_done"
    /\ proc' = "exit0"
    /\ UNCHANGED << version, sessionRest, pipelineRest, bypass, caught,
                    probeVars, uploadVars, transformVars, manifestVars,
                    flowVars >>

Next ==
    \/ GetLatestVersion
    \/ LatestVersionResponse
    \/ LatestVersionFails
    \/ SendNonceIssuance
    \/ NonceIssuanceResponse
    \/ SendBinaryInform
    \/ BinaryInformResponse
    \/ SendBinaryInit
    \/ BinaryInitResponse
    \/ SendDownload
    \/ RequestFails
    \/ DownloadResponse
    \/ \E n \in 1..MaxChunk : OnData(n)
    \/ OnStreamEnd
    \/ OnStreamTruncated
    \/ \E i \in 1..Len(layout) : OnEntry(i)
    \/ ParseBody
    \/ \E i \in 1..Len(layout) : OnFinish(i)
    \/ OnPipelineError
    \/ BpGetLatestVersion
    \/ BpLatestVersionResponse
    \/ BpLatestVersionFails
    \/ StartBatch
    \/ \E k \in 1..NumUrls : \E resp \in ProbeResponses : ProbeCompletes(k, resp)
    \/ EvaluateBatch
    \/ BatchDelay
    \/ directDownloadWorkflow
    \/ BpDownloadFails
    \/ BpDownloadResponse
    \/ BpWriterError
    \/ BpSourceBreaks
    \/ BpWriterFinish
    \/ GetServerSettles
    \/ OnUploadChunk
    \/ UploadAccepted
    \/ UploadNotOk
    \/ UploadFails
    \/ WriteSummary

Spec == Init /\ [][Next]_vars

\* ========================================================= transformModel
MODEL_TRANSFORMATIONS ==
    ("s906b" :> "s916b") @@ ("S906B" :> "S916B") @@
    ("SM-S906B" :> "SM-S916B") @@ ("sm-s906b" :> "sm-s916b")

\* names every plain object answers to through Object.prototype
ObjectPrototype ==
    { "constructor", "toString", "valueOf", "hasOwnProperty",
      "isPrototypeOf", "__proto__" }

\* obj[key] on a plain object: own property, inherited property, undefined
Lookup(obj, key) ==
    IF key \in DOMAIN obj
    THEN Str(obj[key])
    ELSE IF key \in ObjectPrototype
         THEN [ type |-> "object", val |-> key ]
         ELSE JsUndefined

Truthy(v) == v.type = "object" \/ (v.type = "string" /\ v.val # "")

\* a || b
Or(a, b) == IF Truthy(a) THEN a ELSE b

transformModel(model) ==
    LET transformed == Or(Lookup(MODEL_TRANSFORMATIONS, model), Str(model))
    IN  [ original |-> model,
          transformed |-> transformed,
          wasTransformed |-> transformed # Str(model) ]

\* model identifiers a caller can pass with -m
ModelPrefixes == { "", "SM-", "sm-" }

ModelCores ==
    { "s906b", "S906B", "s916b", "S916B", "s901b", "S901B", "G998B", "g998b",
      "A525F", "N986B", "F936B" } \cup ObjectPrototype

ModelInputs == { p \o c : p \in ModelPrefixes, c \in ModelCores }

\* main and mainBypassDownload are entered with a model identifier
InitTransformModel ==
    /\ bypass \in BOOLEAN
    /\ originalModel \in ModelInputs
    /\ modelInfo = NoModelInfo
    /\ pc = "tm_start"
    /\ InitBypassPath
    /\ InitMain

\* const modelInfo = transformModel(model)
ApplyTransformModel ==
    /\ pc = "tm_start"
    /\ modelInfo' = transformModel(originalModel)
    /\ pc' = "tm_done"
    /\ UNCHANGED << version, sessionRest, pipelineVars, entryVars, probeVars,
                    uploadVars, originalModel, manifestVars,
                    flowVars >>

NextTransformModel == ApplyTransformModel

SpecTransformModel == InitTransformModel /\ [][NextTransformModel]_vars

\* ============================================ the identifier after transformModel
\* const processedModel = modelInfo.transformed
processedModel == modelInfo.transformed

Use(what, model) == [ use |-> what, model |-> model ]

\* a manifest lookup made with the identifier the caller passed
NameManifest_Original ==
    /\ pc = "tm_done"
    /\ retained' = retained \cup { Use("log", modelInfo.original) }
    /\ named' = named \cup { Use("manifest", Str(modelInfo.original)) }
    /\ pc' = "fl_manifest"
    /\ UNCHANGED << version, sessionRest, pipelineVars, entryVars, probeVars,
                    uploadVars, transformVars, manifestVars >>

\* the banner shows modelInfo.original; getLatestVersion(region, processedModel)
NameManifest ==
    /\ pc = "tm_done"
    /\ retained' = retained \cup { Use("log", modelInfo.original) }
    /\ named' = named \cup { Use("manifest", processedModel) }
    /\ pc' = "fl_manifest"
    /\ UNCHANGED << version, sessionRest, pipelineVars, entryVars, probeVars,
                    uploadVars, transformVars, manifestVars >>

\* getBinaryInformMsg(version, region, processedModel, nonce.decrypted)
NameBinaryInform ==
    /\ pc = "fl_manifest"
    /\ ~ bypass
    /\ named' = named \cup { Use("BinaryInform", processedModel) }
    /\ pc' = "fl_inform"
    /\ UNCHANGED << version, sessionRest, pipelineVars, entryVars, probeVars,
                    uploadVars, transformVars, manifestVars, retained >>

\* const outputFolder = `${process.cwd()}/${modelInfo.original}_${region}/`
NameOutputFolder ==
    /\ pc = "fl_inform"
    /\ retained' = retained \cup { Use("outputFolder", modelInfo.original) }
    /\ pc' = "fl_done"
    /\ UNCHANGED << version, sessionRest, pipelineVars, entryVars, probeVars,
                    uploadVars, transformVars, manifestVars, named >>

\* directDownloadWorkflow({ model: processedModel, ... }): candidate URLs
NameCandidateUrls ==
    /\ pc = "fl_manifest"
    /\ bypass
    /\ named' = named \cup { Use("candidateUrl", processedModel) }
    /\ pc' = "fl_urls"
    /\ UNCHANGED << version, sessionRest, pipelineVars, entryVars, probeVars,
                    uploadVars, transformVars, manifestVars, retained >>

\* uploadFirmwareToGofile(downloadedFile, { model: processedModel, ... })
NameUploadMetadata ==
    /\ pc = "fl_urls"
    /\ named' = named \cup { Use("uploadMetadata", processedModel) }
    /\ pc' = "fl_upload"
    /\ UNCHANGED << version, sessionRest, pipelineVars, entryVars, probeVars,
                    uploadVars, transformVars, manifestVars, retained >>

\* createUploadSummary(..., { model: processedModel,
\*   originalModel: modelInfo.wasTransformed ? modelInfo.original : undefined })
NameSummary ==
    /\ pc = "fl_upload"
    /\ retained' = IF modelInfo.wasTransformed
                   THEN retained \cup { Use("summary", modelInfo.original) }
                   ELSE retained
    /\ pc' = "fl_done"
    /\ UNCHANGED << version, sessionRest, pipelineVars, entryVars, probeVars,
                    uploadVars, transformVars, manifestVars, named >>

NextModelFlow ==
    \/ ApplyTransformModel
    \/ NameManifest
    \/ NameBinaryInform
    \/ NameOutputFolder
    \/ NameCandidateUrls
    \/ NameUploadMetadata
    \/ NameSummary

SpecModelFlow == InitTransformModel /\ [][NextModelFlow]_vars

\* ------------------------------------------------------------ properties
IsPrefix(s, t) == Len(s) <= Len(t) /\ s = SubSeq(t, 1, Len(s))

\* C1: the requests leave in the order NonceIssuance, BinaryInform,
\* BinaryInit, download, none skipped; request k+1 leaves only after k
\* responses went through handleHeaders; at most one request is in flight.
C1_PhasesSequential ==
    /\ IsPrefix(sent, Phases)
    /\ Cardinality(inflight) <= 1
    /\ Len(sent) >= 1 => handled >= Len(sent) - 1
    /\ inflight # { } => handled = Len(sent) - 1

C1_Witness == pc = "pipeline" /\ sent = Phases /\ handled = 3

Signed == { "BinaryInform", "BinaryInit", "Download" }

\* C2: while a signed request is in flight, its Authorization header and
\* the decrypted nonce in its body are those of the last nonce header
\* observed in any earlier response.
C2_SignedWithLatestNonce ==
    (lastReq.phase \in inflight /\ lastReq.phase \in Signed
        /\ lastNonceSeen # Absent)
    => /\ lastReq.Authorization = SignedAuthorization(lastNonceSeen)
       /\ lastReq.phase # "Download"
              => lastReq.nonce = DecryptNonce(lastNonceSeen)

\* BinaryInit is in flight, signed with the nonce the BinaryInform
\* response rotated in
C2_Witness ==
    /\ inflight = { "BinaryInit" }
    /\ lastResp.nonce = 2
    /\ lastReq.nonce = DecryptNonce(2)

\* a step in which handleHeaders processes a response
HandlesResponse == handled' = handled + 1

\* C3 as stated: Authorization and nonce change exactly when the response
\* carried a nonce header; no JSESSIONID cookie leaves the cookie alone.
C3_ChangedIffNonceHeader ==
    [][ HandlesResponse =>
          /\ (headers'.Authorization # headers.Authorization)
                 <=> (lastResp'.nonce # Absent)
          /\ (nonce' # nonce) <=> (lastResp'.nonce # Absent)
          /\ FindSessionID(lastResp'.setCookie) = Absent
                 => headers'.Cookie = headers.Cookie ]_vars

\* C3 (amended): Authorization and nonce change only when the response
\* carried a nonce header, and after a response with a nonce header they
\* are the values handleAuthRotation derives from that header; a response
\* without JSESSIONID cookie leaves the cookie alone.
C3_ChangedOnlyByNonceHeader ==
    [][ HandlesResponse =>
          /\ (headers'.Authorization # headers.Authorization \/ nonce' # nonce)
                 => lastResp'.nonce # Absent
          /\ lastResp'.nonce # Absent
                 => /\ nonce' = handleAuthRotation(lastResp').nonce
                    /\ headers'.Authorization
                           = handleAuthRotation(lastResp').Authorization
          /\ FindSessionID(lastResp'.setCookie) = Absent
                 => headers'.Cookie = headers.Cookie ]_vars

\* the second response carried no nonce and no session cookie, after a
\* first one that carried both
C3_Witness ==
    /\ handled = 2
    /\ lastResp.nonce = Absent
    /\ FindSessionID(lastResp.setCookie) = Absent
    /\ nonce.encrypted # Empty
    /\ headers.Cookie # Absent

\* C4: a NonceIssuance response without nonce header ends the attempt:
\* nothing is sent after it with an empty nonce and no Authorization.
C4_NoNonceStopsSession ==
    (handled >= 1 /\ lastNonceSeen = Absent) => Len(sent) <= 1

C6_ExitOnlyAtByteSize ==
    proc = "exit0" => downloadedSize = binaryByteSize

C6_Witness ==
    /\ proc = "exit0"
    /\ \E i \in 1..Len(entryState) : entryState[i] = "finished"

\* nothing is left to run: every received byte is parsed and every entry
\* whose bytes are complete has finished
Quiescent ==
    /\ pc = "pipeline"
    /\ streamStatus \in { "ended", "cut" }
    /\ parsedSize = downloadedSize
    /\ \A i \in 1..Len(entryState) :
          entryState[i] = "open" => parsedSize < EntryEnd(i)

\* C7: a stream that stops before byteSize bytes surfaces a failure; the
\* run never comes to rest without an error while entries were extracted.
C7_TruncationSurfaces ==
    (/\ streamStatus = "cut"
     /\ Quiescent
     /\ \E i \in 1..Len(entryState) : entryState[i] # "pending")
    => proc = "crashed"

\* C8: when success is reported, no opened entry is still being written.
C8_ExitAfterAllFinished ==
    proc = "exit0" => \A i \in 1..Len(entryState) : entryState[i] # "open"

C10_CompleteStreamSucceeds ==
    (/\ Quiescent
     /\ streamStatus = "ended"
     /\ ~errorSeen
     /\ \A i \in 1..Len(entryState) : entryState[i] = "finished")
    => proc = "exit0"


\* ------------------------------------------------ DirectAcquisitionProbe
\* findAccessibleFirmwareUrl returns in this step
ProbeReturns ==
    /\ pc \in { "bp_probe_wait", "bp_probe_delay" }
    /\ pc' = "bp_probe_returned"

\* C11: whenever findAccessibleFirmwareUrl returns a candidate, that
\* candidate's probe reported accessible with a size above the threshold,
\* the returned size is the probed one, and every candidate before it in
\* the list was probed and was not acceptable, whatever the outcomes, the
\* batch the candidate is in and the order the probes completed in.
C11_LowestAcceptedWins ==
    [][ (ProbeReturns /\ urlInfo' # NoUrl) =>
          /\ urlInfo'.url \in 1..NumUrls
          /\ Accepts(probeState[urlInfo'.url])
          /\ urlInfo'.size = probeState[urlInfo'.url].size
          /\ \A j \in 1..(urlInfo'.url - 1) :
                /\ probeState[j].phase = "done"
                /\ ~ Accepts(probeState[j]) ]_vars

\* a candidate of the second batch was returned
C11_Witness ==
    /\ pc = "bp_probe_returned"
    /\ urlInfo.url > BatchSize

C13_BatchBarrier ==
    /\ Cardinality(InFlight) <= BatchSize
    /\ InFlight \subseteq Batch(probeIdx)
    /\ pc # "bp_probe_wait" => InFlight = {}
    /\ pc \in { "bp_probe_loop", "bp_probe_wait", "bp_probe_delay" } =>
          \A k \in 1..probeIdx : probeState[k].phase = "done"

\* the second batch is in flight
C13_Witness ==
    /\ pc = "bp_probe_wait"
    /\ probeIdx = BatchSize
    /\ InFlight # {}
    /\ \A k \in 1..BatchSize : probeState[k].phase = "done"

\* candidate k's probe settles in this step with something else than 200
ProbeFails(k) ==
    /\ probeState[k].phase = "inflight"
    /\ probeState'[k].phase = "done"
    /\ probeState'[k].status # 200

\* C14: a probe that fails (request error, timeout, status other than 200)
\* is recorded as not accessible and changes nothing else: the run goes on
\* waiting for the batch, no error is caught, the other probes keep their
\* state; and the probe ends without a candidate only with all candidates
\* evaluated.
C14_FailedProbeAbsorbed ==
    [][ /\ \A k \in 1..NumUrls :
              ProbeFails(k) =>
                 /\ ~ probeState'[k].accessible
                 /\ pc' = "bp_probe_wait"
                 /\ proc' = "running"
                 /\ caught' = NoError
                 /\ \A j \in 1..NumUrls \ {k} : probeState'[j] = probeState[j]
        /\ (ProbeReturns /\ \E k \in 1..NumUrls : probeState[k].status # 200) =>
              \A j \in 1..NumUrls :
                 (urlInfo' = NoUrl \/ j <= urlInfo'.url) =>
                     probeState[j].phase = "done" ]_vars

\* a probe of the batch has failed and a later one of the same batch is
\* accepted while the run is still waiting for the batch
C14_Witness ==
    /\ pc = "bp_probe_wait"
    /\ proc = "running"
    /\ \E k \in Batch(probeIdx) : \E j \in Batch(probeIdx) :
          /\ k < j
          /\ probeState[k].phase = "done" /\ probeState[k].status = 0
          /\ Accepts(probeState[j])


\* ---------------------------------------------------------- Orchestrator
ProbePcs == { "bp_probe_loop", "bp_probe_wait", "bp_probe_delay" }

BypassPcs ==
    { "bp_start", "bp_manifest", "bp_probe_returned", "bp_download_wait",
      "bp_piping", "bp_stalled", "bp_server_wait", "bp_uploading",
      "bp_uploaded", "bp_done", "bp_exit" } \cup ProbePcs

\* the probe has run and has returned no candidate
NoMirror ==
    /\ "probe" \in performed
    /\ pc \notin ProbePcs
    /\ urlInfo = NoUrl

\* C15: on the bypass path, once the probe has returned without a mirror
\* the only thing that follows is the exit with the no-mirror error: no
\* download, no best-server query, no upload and no summary write happen.
C15_NoMirrorEndsRun ==
    NoMirror =>
       /\ pc \in { "bp_probe_returned", "bp_exit" }
       /\ performed = { "probe" }
       /\ pc = "bp_exit" =>
             /\ caught.kind = "NoMirrorFound"
             /\ proc = "exit1"

C15_Witness ==
    /\ NoMirror
    /\ pc = "bp_exit"
    /\ caught.kind = "NoMirrorFound"

\* C16: an invocation stays on the path its bypass flag selects: with the
\* flag it never sends a session request, without it no bypass action ever
\* happens, also after a session request has been rejected.
C16_OnePath ==
    /\ bypass => /\ pc \in BypassPcs
                 /\ sent = << >>
                 /\ inflight = { }
    /\ ~ bypass => /\ pc \notin BypassPcs
                   /\ performed = { }
                   /\ caught = NoError

\* a session request was rejected on the authenticated path
C16_Witness ==
    /\ ~ bypass
    /\ pc = "rejected"
    /\ Len(sent) >= 1

\* ----------------------------------------------------------- MirrorRelay
\* C17: when the best-server lookup fails or answers with a status other
\* than 'ok', the server is the default one, the upload request has been
\* issued against it, and the step in which the lookup settles leaves the
\* run going without an error.
C17_LookupNeverFatal ==
    /\ [](lookup \in { "failed", "notok" } =>
             /\ server = DefaultServer
             /\ "upload" \in performed)
    /\ [][pc = "bp_server_wait" /\ pc' # pc =>
             /\ pc' = "bp_uploading"
             /\ proc' = "running"
             /\ caught' = NoError]_vars

\* the lookup failed and the upload is being transmitted
C17_Witness ==
    /\ pc = "bp_uploading"
    /\ lookup = "failed"
    /\ server = DefaultServer
    /\ uploadedChunks >= 1

\* C18: the upload returns a result only when no failure occurred, and a
\* failed upload hands the caller the cause: the error the caller catches
\* has the kind of the cause (a rejection by the host or a failed request)
\* and carries the response the cause carried.
C18_CallerReceivesCause ==
    /\ pc \in { "bp_uploaded", "bp_done" } => uploadCause = NoError
    /\ uploadCause # NoError =>
          /\ pc = "bp_exit"
          /\ caught.kind = uploadCause.kind
          /\ caught.response = uploadCause.response

C20_NonKeysUnchanged ==
    pc = "tm_done" =>
       /\ modelInfo.original = originalModel
       /\ originalModel \notin DOMAIN MODEL_TRANSFORMATIONS =>
             /\ modelInfo.transformed = Str(originalModel)
             /\ ~ modelInfo.wasTransformed
       /\ modelInfo.wasTransformed <=>
             modelInfo.transformed # Str(modelInfo.original)


\* -------------------------------------------------------- VersionResolver
\* C21: a resolved version never has a missing modem, only an empty one;
\* the BinaryInform request carries pda in the modem position when modem is
\* empty and never the text of a missing value, and no candidate filename
\* is built from a missing modem.
C21_MissingModemIsEmpty ==
    /\ version # << >> => version.modem # "undefined"
    /\ lastReq.phase = "BinaryInform" =>
          /\ lastReq.version[3] # "undefined"
          /\ version.modem = "" => lastReq.version[3] = version.pda
    /\ "probe" \in performed => FilenameFields[3] # "undefined"


\* ------------------------------------------------------------ exit codes
\* nothing is left to run although nobody called process.exit: the event
\* loop is empty and the process ends by itself
Drained ==
    /\ proc = "running"
    /\ \/ Quiescent
       \/ pc = "bp_stalled"

\* how the process has ended: process.exit() and a drained event loop give
\* code 0; process.exit(1), an uncaught exception and a rejection of main
\* that nobody handles give a non-zero code
ExitCode ==
    IF proc = "exit0" THEN "zero"
    ELSE IF proc \in { "exit1", "crashed" } THEN "nonzero"
    ELSE IF pc = "rejected" THEN "nonzero"
    ELSE IF Drained THEN "zero"
    ELSE "running"

\* the run has met a failure it did not recover from
Failed ==
    \/ pc = "rejected"
    \/ streamStatus = "cut"
    \/ errorSeen
    \/ caught # NoError
    \/ pc = "bp_stalled"

\* C22: a run that has met an unrecovered failure (manifest lookup, session
\* phase, truncated or corrupt download, no mirror, direct download,
\* upload) never ends with exit code 0.
C22_FailureExitsNonZero ==
    Failed => ExitCode # "zero"


\* ------------------------------------------------------- getLatestVersion
\* no step after the manifest lookup has been started
NothingAfterManifest ==
    /\ sent = << >>
    /\ inflight = { }
    /\ performed = { }
    /\ pc \in { "rejected", "bp_exit" }

C24_LaterBatchesNeverProbed ==
    [][ (ProbeReturns /\ urlInfo' # NoUrl) =>
          /\ urlInfo'.url \in Batch(probeIdx)
          /\ InFlight = {}
          /\ \A k \in 1..NumUrls :
                k > probeIdx + BatchSize => probeState[k].phase = "idle" ]_vars

\* a candidate of the first batch was returned while a later batch exists
C24_Witness ==
    /\ pc = "bp_probe_returned"
    /\ urlInfo.url \in 1..BatchSize
    /\ NumUrls > BatchSize
    /\ probeState = ProbeIdle


\* ------------------------------------------------- order of the bypass run
\* the step adds a to the steps that have been started
Starts(a) == a \notin performed /\ a \in performed'

\* C25: the upload (its best-server query first) is started only by the
\* 'finish' of the downloaded file's write stream, the summary is written
\* only after the upload has returned a result, and the download, the
\* upload and the summary write are never under way at the same time.
C25_DownloadUploadSummaryInOrder ==
    /\ [][ /\ Starts("bestServer") =>
                 /\ pc = "bp_piping"
                 /\ "download" \in performed
                 /\ "upload" \notin performed
           /\ Starts("upload") =>
                 /\ pc = "bp_server_wait"
                 /\ "bestServer" \in performed
           /\ Starts("summary") =>
                 /\ pc = "bp_uploaded"
                 /\ "upload" \in performed
                 /\ uploadCause = NoError ]_vars
    /\ []( /\ pc \in { "bp_download_wait", "bp_piping", "bp_stalled" } =>
                performed = { "probe", "download" }
           /\ pc \in { "bp_server_wait", "bp_uploading", "bp_uploaded" } =>
                "summary" \notin performed
           /\ "summary" \in performed => pc = "bp_done" )

\* the whole chain has run
C25_Witness ==
    /\ pc = "bp_done"
    /\ performed = { "probe", "download", "bestServer", "upload", "summary" }
    /\ uploadedChunks >= 1


\* ------------------------------------------------ identifier in requests
\* C26: every request that names the device carries the transformed
\* identifier, which differs from the original whenever a transformation
\* applied; what is reported and the output folder of the authenticated
\* path carry the original identifier.
C26_RequestsUseTransformed ==
    /\ \A n \in named :
          /\ n.model = modelInfo.transformed
          /\ modelInfo.wasTransformed => n.model # Str(originalModel)
    /\ \A r \in retained : r.model = originalModel
    /\ (pc = "fl_done" /\ ~ bypass) =>
          Use("outputFolder", originalModel) \in retained

\* a transformed identifier went into the manifest lookup and BinaryInform
\* and the output folder is named after the original
C26_Witness ==
    /\ pc = "fl_done"
    /\ originalModel = "SM-S906B"
    /\ Use("manifest", Str("SM-S916B")) \in named
    /\ Use("BinaryInform", Str("SM-S916B")) \in named
    /\ Use("outputFolder", "SM-S906B") \in retained


\* ------------------------------------------------- downloadFirmwareDirect
\* the promise of downloadFirmwareDirect has rejected into the caller's
\* catch block, or has resolved and the caller has gone on to the upload
DownloadSettled ==
    \/ caught # NoError
    \/ "bestServer" \in performed

\* C27: a call of downloadFirmwareDirect that has not settled yet can still
\* be settled: the request is unanswered or the file is being written;
\* it is never left pending with nothing that resolves or rejects it,
\* whatever happens to the response stream.
C27_DownloadSettles ==
    ("download" \in performed /\ ~ DownloadSettled) =>
        pc \in { "bp_download_wait", "bp_piping" }

====
